---- MODULE Spec2Model ----
(***************************************************************************)
(* mongo-to-mongoose: inference of a Mongoose schema from the documents of *)
(* a MongoDB collection.                                                   *)
(*                                                                         *)
(* Spec      the run of src/index.js (generateSchemaFromMongo and the      *)
(*           functions it calls).                                          *)
(* SpecFlat  the flatten-based updateFlatMap (src/unnamed/part_001 with    *)
(*           flatten of src/custom-flat.js), applied document by document. *)
(* SpecTrip  flatten, then unflatten, of src/custom-flat.js on one object. *)
(* SpecBuild flatMapToSchema of src/index.js and unflatten of              *)
(*           src/custom-flat.js on accumulators of any paths.              *)
(*                                                                         *)
(* A JavaScript value is a record [t, c]: t is its kind, c its children    *)
(* (the [k, v] entries of an object in key order, the elements of an       *)
(* array).  A path ("a.$.b") is the sequence of its segments; the field    *)
(* names of the documents hold no '.', so that joining the segments with   *)
(* '.' and splitting on '.' are inverse on every path of the model.        *)
(***************************************************************************)
EXTENDS Integers, Sequences, FiniteSets, TLC

VARIABLES
    pc,          \* position of the run: see the actions
    flatMap,     \* the accumulator: sequence of [k |-> path, v |-> tag] in key insertion order
    count,       \* documents yielded by the stream so far
    seen,        \* documents whose updateFlatMap call returned normally
    observed,    \* history: the <<path, tag>> pairs handed to mergeTypes
    keyed,       \* history (SpecFlat): <<normalized path, accumulator key, classified>>
    failedDoc,   \* the document whose updateFlatMap call raised an error (NoDoc if none)
    clientOpen,  \* the MongoClient holds a connection
    failure,     \* what went wrong at the source ("none", "connect", "read")
    caught,      \* what the catch clause of generateSchemaFromMongo caught ("none" if nothing)
    stdout,      \* console.log lines
    stderr,      \* console.error lines
    clipboard,   \* text written to the clipboard ("" if none)
    typeKey,     \* option --typeKey as read by the run ("" when not given)
    promise,     \* the promise of generateSchemaFromMongo
    exitCode,    \* exit status of the process (-1 while it runs)
    input,       \* SpecTrip: the object handed to flatten
    flatDoc,     \* SpecTrip: what flatten returned, [k |-> path, v |-> value] in key order
    tree         \* SpecTrip, SpecBuild: what the schema builder returned (and whether it threw)

vars == <<pc, flatMap, count, seen, observed, keyed, failedDoc, clientOpen, failure,
          caught, stdout, stderr, clipboard, typeKey, promise, exitCode,
          input, flatDoc, tree>>

\* the variables the runs of Spec and SpecFlat leave alone
treeVars == <<input, flatDoc, tree>>

----------------------------------------------------------------------------
(* Bounds *)

\* documents one run reads from the stream
MaxDocs == 3
\* elements of an array of scalars
MaxLen == 2

----------------------------------------------------------------------------
(* JavaScript values *)

Scalar(kind) == [t |-> kind, c |-> <<>>]
Obj(entries) == [t |-> "Object", c |-> entries]
Arr(items) == [t |-> "Array", c |-> items]
Field(key, value) == [k |-> key, v |-> value]

\* typeof value === 'object'
TypeofObject(value) ==
    value.t \in {"null", "Object", "Array", "RegExp", "Date", "ObjectId", "Decimal128", "Binary",
                 "Buffer"}

\* Array.isArray(value)
IsArray(value) == value.t = "Array"

\* the keys a for-in loop (or Object.keys) enumerates, with their values
Fields(value) == IF value.t \in {"Object", "Binary", "Buffer"} THEN value.c ELSE <<>>

----------------------------------------------------------------------------
(* src/index.js: the classifier and the merge *)

Mixed == "mongoose.Schema.Types.Mixed"

\* flatMap[path] of a missing key
Undefined == "undefined"

Returned(tag) == [ok |-> TRUE, tag |-> tag, msg |-> ""]
Thrown(msg) == [ok |-> FALSE, tag |-> Undefined, msg |-> msg]

inferType(value) ==
    IF value.t = "boolean" THEN Returned("Boolean")
    ELSE IF value.t = "number" THEN Returned("Number")
    \* value._bsontype of null or undefined is a TypeError
    ELSE IF value.t \in {"null", "undefined"} THEN Thrown("TypeError: Cannot read properties")
    ELSE IF value.t = "Decimal128" THEN Returned("Number")
    ELSE IF value.t = "Date" THEN Returned("Date")
    \* a string that parses as a date and is not all digits
    ELSE IF value.t = "dateString" THEN Returned("Date")
    ELSE IF value.t \in {"string", "digitString", "ObjectId"} THEN Returned("String")
    ELSE Thrown("Unsupported type of: " \o value.t)

\* mutant: Mixed is treated as "nothing known yet"
mergeTypesForgetful(existingType, newType) ==
    IF existingType = Undefined \/ existingType = "" \/ existingType = Mixed THEN newType
    ELSE IF existingType = newType THEN existingType
    ELSE Mixed

\* mutant: the test for equal tags is missing
mergeTypesNoEqual(existingType, newType) ==
    IF existingType = Undefined \/ existingType = "" THEN newType
    ELSE Mixed

\* mutant: the first tag seen is kept (existingType || newType)
mergeTypesKeepFirst(existingType, newType) ==
    IF existingType = Undefined \/ existingType = "" THEN newType
    ELSE existingType

\* mutant: the last tag seen wins
mergeTypesLastWins(existingType, newType) == newType

mergeTypes(existingType, newType) ==
    IF existingType = Undefined \/ existingType = "" THEN newType
    ELSE IF existingType = newType THEN existingType
    ELSE Mixed

----------------------------------------------------------------------------
(* The accumulator: a JavaScript object keyed by path *)

EmptyFlatMap == <<>>

Keys(fm) == {fm[i].k : i \in 1..Len(fm)}

Has(fm, path) == path \in Keys(fm)

Get(fm, path) ==
    IF Has(fm, path) THEN fm[CHOOSE i \in 1..Len(fm) : fm[i].k = path].v ELSE Undefined

\* fm[path] = tag: a new key goes last, an old key keeps its place
Put(fm, path, tag) ==
    IF Has(fm, path)
    THEN [i \in 1..Len(fm) |-> IF fm[i].k = path THEN [k |-> path, v |-> tag] ELSE fm[i]]
    ELSE Append(fm, [k |-> path, v |-> tag])

\* the mapping without the insertion order
AsMap(fm) == {<<fm[i].k, fm[i].v>> : i \in 1..Len(fm)}

----------------------------------------------------------------------------
(* src/index.js: updateFlatMap *)

\* the state one updateFlatMap call works on: the accumulator, whether an
\* error left the call, the console.error lines, the pairs merged
Acc(fm) == [fm |-> fm, thrown |-> FALSE, msg |-> "", err |-> <<>>, obs |-> {}]

\* flatMap[path] = mergeTypes(flatMap[path], tag)
MergeInto(acc, path, tag) ==
    [acc EXCEPT !.fm = Put(acc.fm, path, mergeTypes(Get(acc.fm, path), tag)),
                !.obs = @ \cup {<<path, tag>>}]

RECURSIVE UpdateFields(_, _, _, _)
\* the for-in loop of updateFlatMap from field i on; an error that leaves
\* the catch block ends the loop and every enclosing call
UpdateFields(fields, i, acc, path) ==
    IF acc.thrown \/ i > Len(fields) THEN acc
    ELSE
      LET key == fields[i].k
          value == fields[i].v
          currentPath == IF path # <<>> THEN path \o <<key>> ELSE <<key>>
          r == inferType(value)
          first == value.c[1]
          r0 == inferType(first)
          next ==
            IF r.ok THEN MergeInto(acc, currentPath, r.tag)
            ELSE IF TypeofObject(value) /\ ~IsArray(value)
              THEN UpdateFields(Fields(value), 1, acc, currentPath)
            ELSE IF IsArray(value)
              THEN IF Len(value.c) > 0
                   THEN IF TypeofObject(first) /\ ~IsArray(first)
                        THEN UpdateFields(Fields(first), 1, acc, currentPath \o <<"$">>)
                        ELSE IF r0.ok
                             THEN MergeInto(acc, currentPath \o <<"$">>, r0.tag)
                             ELSE [acc EXCEPT !.thrown = TRUE, !.msg = r0.msg]
                   ELSE acc
            ELSE [acc EXCEPT !.err = Append(@, r.msg)]
      IN UpdateFields(fields, i + 1, next, path)

updateFlatMap(doc, fm) == UpdateFields(Fields(doc), 1, Acc(fm), <<>>)

----------------------------------------------------------------------------
(* src/index.js: flatMapToSchema *)

\* a value of the schema tree: a string, an object with properties p (in
\* insertion order), an array with elements c (and, being an object too,
\* properties p), or undefined
SStr(s) == [t |-> "string", s |-> s, c |-> <<>>, p |-> <<>>]
SObj(props) == [t |-> "object", s |-> "", c |-> <<>>, p |-> props]
SArr(items) == [t |-> "array", s |-> "", c |-> items, p |-> <<>>]
SUndefined == [t |-> "undefined", s |-> "", c |-> <<>>, p |-> <<>>]

IsRef(node) == node.t \in {"object", "array"}

\* !node
Falsy(node) == node.t = "undefined" \/ (node.t = "string" /\ node.s = "")

\* segments that are array indices
DigitSegs == {"0", "1", "2", "3", "4", "5", "6", "7", "8", "9"}

\* the first character of the strings the accumulator holds
FirstChar(s) ==
    CASE s = "Boolean" -> "B"
      [] s = "Number" -> "N"
      [] s = "Date" -> "D"
      [] s = "String" -> "S"
      [] s = Mixed -> "m"
      [] OTHER -> "?"

HasProp(node, key) == \E i \in 1..Len(node.p) : node.p[i].k = key

PropOf(node, key) == node.p[CHOOSE i \in 1..Len(node.p) : node.p[i].k = key].n

\* node[key], node not undefined
ReadProp(node, key) ==
    IF node.t = "array" /\ key = "0"
      THEN IF Len(node.c) > 0 THEN node.c[1] ELSE SUndefined
    ELSE IF node.t = "string"
      THEN IF key = "0" /\ node.s # "" THEN SStr(FirstChar(node.s)) ELSE SUndefined
    ELSE IF HasProp(node, key) THEN PropOf(node, key)
    ELSE SUndefined

\* node[key] = val, node an object or an array
WriteProp(node, key, val) ==
    IF node.t = "array" /\ key = "0"
      THEN [node EXCEPT !.c = IF Len(node.c) > 0 THEN [@ EXCEPT ![1] = val] ELSE <<val>>]
    ELSE IF HasProp(node, key)
      THEN [node EXCEPT !.p = [i \in 1..Len(node.p) |->
                                 IF node.p[i].k = key THEN [k |-> key, n |-> val] ELSE node.p[i]]]
    ELSE [node EXCEPT !.p = Append(@, [k |-> key, n |-> val])]

RECURSIVE GetAt(_, _)
\* the object a reference points at: at is the list of keys from the root
GetAt(node, at) ==
    IF at = <<>> THEN node ELSE GetAt(ReadProp(node, Head(at)), Tail(at))

RECURSIVE SetAt(_, _, _)
SetAt(node, at, new) ==
    IF at = <<>> THEN new
    ELSE WriteProp(node, Head(at), SetAt(ReadProp(node, Head(at)), Tail(at), new))

\* `current`: a reference to an object of the tree, or a primitive value
Ref(at) == [ref |-> TRUE, at |-> at, val |-> SUndefined]
Prim(node) == [ref |-> FALSE, at |-> <<>>, val |-> node]

Deref(st) == IF st.cur.ref THEN GetAt(st.root, st.cur.at) ELSE st.cur.val

\* current[key]; reading a property of undefined is a TypeError
CanRead(st) == Deref(st).t # "undefined"

\* current[key] = val; in a module (strict mode) creating a property on a
\* primitive is a TypeError
CanWrite(st) == st.cur.ref

Assign(st, key, val) ==
    IF CanWrite(st)
    THEN [st EXCEPT !.root = SetAt(st.root, st.cur.at, WriteProp(Deref(st), key, val))]
    ELSE [st EXCEPT !.thrown = TRUE]

\* current = current[k1] or current = current[k1][k2], current[k1] truthy
Enter(st, keys) ==
    LET RECURSIVE Walk(_, _, _)
        Walk(node, at, ks) ==
            IF ks = <<>> THEN IF IsRef(node) THEN Ref(at) ELSE Prim(node)
            ELSE Walk(ReadProp(node, Head(ks)), Append(at, Head(ks)), Tail(ks))
    IN [st EXCEPT !.cur = Walk(Deref(st), st.cur.at, keys)]

RECURSIVE PathLoop(_, _, _, _)
\* the for loop over the segments of one path, from segment index on
PathLoop(st, keys, index, tag) ==
    IF st.thrown \/ index > Len(keys) THEN st
    ELSE
      LET key == keys[index]
          hasNext == index + 1 <= Len(keys)
          isLastKey == index = Len(keys)
      IN IF hasNext /\ keys[index + 1] = "$"
         THEN IF index + 1 = Len(keys)
              THEN Assign(st, key, SArr(<<SStr(tag)>>))
              ELSE IF ~CanRead(st) THEN [st EXCEPT !.thrown = TRUE]
                   ELSE LET st1 == IF Falsy(ReadProp(Deref(st), key))
                                   THEN Assign(st, key, SArr(<<SObj(<<>>)>>))
                                   ELSE st
                        IN IF st1.thrown THEN st1
                           ELSE PathLoop(Enter(st1, <<key, "0">>), keys, index + 2, tag)
         ELSE IF isLastKey THEN Assign(st, key, SStr(tag))
         ELSE IF ~CanRead(st) THEN [st EXCEPT !.thrown = TRUE]
              ELSE LET st1 == IF Falsy(ReadProp(Deref(st), key))
                              THEN Assign(st, key, SObj(<<>>))
                              ELSE st
                   IN IF st1.thrown THEN st1
                      ELSE PathLoop(Enter(st1, <<key>>), keys, index + 1, tag)

RECURSIVE SchemaLoop(_, _, _)
\* Object.keys(flatMap).forEach from key i on
SchemaLoop(fm, i, st) ==
    IF st.thrown \/ i > Len(fm) THEN st
    ELSE SchemaLoop(fm, i + 1,
                    PathLoop([st EXCEPT !.cur = Ref(<<>>)], fm[i].k, 1, fm[i].v))

\* [root |-> the schema, thrown |-> a TypeError left the function]
flatMapToSchema(fm) ==
    SchemaLoop(fm, 1, [root |-> SObj(<<>>), cur |-> Ref(<<>>), thrown |-> FALSE])

----------------------------------------------------------------------------
(* src/index.js: flatMapToMongooseJSONSchema *)

\* the indent generateSchemaFromMongo asks for
Indent == 2

RECURSIVE Spaces(_)
\* ' '.repeat(n)
Spaces(n) == IF n <= 0 THEN "" ELSE " " \o Spaces(n - 1)

\* /^[a-zA-Z_$][a-zA-Z0-9_$]*$/.test(key): of the segments of the model,
\* the array indices alone are no identifiers
isValidKey(key) == key \notin DigitSegs

RECURSIVE JoinLines(_)
\* lines.join(',\n')
JoinLines(lines) ==
    IF lines = <<>> THEN ""
    ELSE IF Len(lines) = 1 THEN lines[1]
    ELSE lines[1] \o ",\n" \o JoinLines(Tail(lines))

\* the switch of stringifyHelper over a string value
stringifyLeaf(value, tk) ==
    IF value \in {"String", "Date", "Number", "Boolean"}
    THEN IF tk # "" THEN "{ " \o tk \o ": " \o value \o " }" ELSE value
    ELSE "\"" \o value \o "\""

RECURSIVE stringifyHelper(_, _, _)
stringifyHelper(value, currentIndent, tk) ==
    IF value.t = "array"
    THEN "[\n"
         \o JoinLines([i \in 1..Len(value.c) |->
                Spaces(currentIndent + Indent)
                \o stringifyHelper(value.c[i], currentIndent + Indent, tk)])
         \o "\n" \o Spaces(currentIndent) \o "]"
    ELSE IF value.t = "object"
    THEN "{\n"
         \o JoinLines([i \in 1..Len(value.p) |->
                Spaces(currentIndent + Indent)
                \o (IF isValidKey(value.p[i].k) THEN value.p[i].k
                    ELSE "\"" \o value.p[i].k \o "\"")
                \o ": " \o stringifyHelper(value.p[i].n, currentIndent + Indent, tk)])
         \o "\n" \o Spaces(currentIndent) \o "}"
    ELSE IF value.t = "string" THEN stringifyLeaf(value.s, tk)
    ELSE "undefined"

\* the collection the run is asked for
CollectionName == "students"

\* the text generateSchemaFromMongo builds from the schema tree
SchemaText(root, tk) ==
    "import mongoose from 'mongoose';\n\n"
    \o "const schema = new mongoose.Schema(" \o stringifyHelper(root, 0, tk)
    \o (IF tk # "" THEN ", { typeKey: '" \o tk \o "' }" ELSE "")
    \o ");\n\n"
    \o "export default mongoose.model('" \o CollectionName \o "', schema);"

----------------------------------------------------------------------------
(* The documents of the collection *)

ScalarKinds ==
    {"boolean", "number", "Decimal128", "Date", "dateString", "digitString",
     "string", "ObjectId", "null", "RegExp", "undefined"}

ElemKinds == {"number", "string"}

\* arrays of scalars, of every length up to MaxLen
ScalarArrays ==
    UNION {[1..n -> {Scalar(kind) : kind \in ElemKinds}] : n \in 0..MaxLen}

Inner(kind) == Obj(<<Field("b", Scalar(kind))>>)

\* a BSON Binary of one byte, by its own enumerable properties: the bytes
\* (a Buffer, whose indices a for-in loop enumerates), the subtype and the
\* number of bytes in use
BinaryValue ==
    [t |-> "Binary",
     c |-> <<Field("buffer", [t |-> "Buffer", c |-> <<Field("0", Scalar("number"))>>]),
             Field("sub_type", Scalar("number")),
             Field("position", Scalar("number"))>>]

Values ==
    {Scalar(kind) : kind \in ScalarKinds}
    \cup {Arr(items) : items \in ScalarArrays}
    \cup {Arr(<<Inner(kind)>>) : kind \in ElemKinds}
    \cup {Arr(<<Arr(<<Scalar("number")>>)>>), Arr(<<Scalar("null")>>)}
    \cup {Inner(kind) : kind \in ElemKinds}
    \cup {Obj(<<>>), BinaryValue}

Docs ==
    {Obj(<<Field("a", value)>>) : value \in Values}
    \cup {Obj(<<Field("a", value), Field("b", Scalar("number"))>>) :
            value \in {Arr(<<Arr(<<Scalar("number")>>)>>), Scalar("undefined"), Scalar("null")}}
    \cup {Obj(<<Field("b", Scalar("number")), Field("a", Arr(<<Arr(<<Scalar("number")>>)>>))>>)}

\* option --typeKey: not given, or a custom key
TypeKeys == {"", "$type"}

----------------------------------------------------------------------------
(* src/index.js: generateSchemaFromMongo and the process around it *)

NoDoc == Obj(<<>>)

\* no schema tree built yet
NoTree == [root |-> SUndefined, thrown |-> FALSE]

Init ==
    /\ pc = "start"
    /\ flatMap = EmptyFlatMap
    /\ count = 0
    /\ seen = {}
    /\ observed = {}
    /\ keyed = {}
    /\ failedDoc = NoDoc
    /\ clientOpen = FALSE
    /\ failure = "none"
    /\ caught = "none"
    /\ stdout = <<>>
    /\ stderr = <<>>
    /\ clipboard = ""
    /\ typeKey = ""
    /\ promise = "pending"
    /\ exitCode = -1
    /\ input = NoDoc
    /\ flatDoc = <<>>
    /\ tree = NoTree

\* the catch clause of generateSchemaFromMongo: the error is logged and the
\* function returns normally
Catch(what, errLines) ==
    /\ caught' = what
    /\ stderr' = stderr \o errLines \o <<"Error generating schema:">>
    /\ pc' = "returned"
    /\ promise' = "fulfilled"

\* await MongoClient.connect(connectionUrl) resolves
ConnectOk ==
    /\ pc = "start"
    /\ clientOpen' = TRUE
    /\ stdout' = Append(stdout, "Starting schema generation...")
    /\ pc' = "streaming"
    /\ UNCHANGED <<flatMap, count, seen, observed, keyed, failedDoc, failure, caught,
                   stderr, clipboard, typeKey, promise, exitCode>>
    /\ UNCHANGED treeVars

\* await MongoClient.connect(connectionUrl) rejects
ConnectFail ==
    /\ pc = "start"
    /\ failure' = "connect"
    /\ Catch("connect", <<>>)
    /\ UNCHANGED <<flatMap, count, seen, observed, keyed, failedDoc, clientOpen, stdout,
                   clipboard, typeKey, exitCode>>
    /\ UNCHANGED treeVars

\* the stream yields a document: one turn of the for-await loop
NextDoc(doc) ==
    /\ pc = "streaming"
    /\ count < MaxDocs
    /\ LET r == updateFlatMap(doc, flatMap)
       IN /\ flatMap' = r.fm
          /\ observed' = observed \cup r.obs
          /\ IF r.thrown
             THEN /\ Catch("updateFlatMap", r.err)
                  /\ failedDoc' = doc
                  /\ seen' = seen
             ELSE /\ stderr' = stderr \o r.err
                  /\ seen' = seen \cup {doc}
                  /\ UNCHANGED <<pc, caught, promise, failedDoc>>
    /\ count' = count + 1
    /\ UNCHANGED <<keyed, clientOpen, failure, stdout, clipboard, typeKey, exitCode>>
    /\ UNCHANGED treeVars

\* the stream fails while it is read
ReadFail ==
    /\ pc = "streaming"
    /\ failure' = "read"
    /\ Catch("read", <<>>)
    /\ UNCHANGED <<flatMap, count, seen, observed, keyed, failedDoc, clientOpen, stdout,
                   clipboard, typeKey, exitCode>>
    /\ UNCHANGED treeVars

\* mutant: flatMap.length of an object is undefined, never 0
NoRecordsLength(fm) == FALSE

\* Object.keys(flatMap).length === 0
NoRecords(fm) == Len(fm) = 0

\* the stream ends: the code after the loop, up to the next await.  The
\* options typeKey and copyToClipboard are first read here.
EndOfStream(tk, copyToClipboard) ==
    /\ pc = "streaming"
    /\ IF NoRecords(flatMap)
       THEN /\ stdout' = Append(stdout, "No records found.")
            /\ pc' = "returned"
            /\ promise' = "fulfilled"
            /\ UNCHANGED <<typeKey, caught, stderr, clientOpen>>
       ELSE LET built == flatMapToSchema(flatMap)
            IN /\ typeKey' = tk
               /\ IF built.thrown
                  THEN /\ Catch("flatMapToSchema", <<>>)
                       /\ UNCHANGED <<stdout, clientOpen>>
                  ELSE /\ stdout' = Append(stdout, "\n\n" \o SchemaText(built.root, tk))
                       /\ IF copyToClipboard
                          THEN /\ pc' = "copying"
                               /\ UNCHANGED <<clientOpen, promise>>
                          ELSE /\ clientOpen' = FALSE
                               /\ pc' = "returned"
                               /\ promise' = "fulfilled"
                       /\ UNCHANGED <<caught, stderr>>
    /\ UNCHANGED <<flatMap, count, seen, observed, keyed, failedDoc, failure, clipboard, exitCode>>
    /\ UNCHANGED treeVars

\* await clipboardy.write(schema) resolves; then client.close()
CopyOk ==
    /\ pc = "copying"
    /\ clipboard' = SchemaText(flatMapToSchema(flatMap).root, typeKey)
    /\ stdout' = Append(stdout, "\n\nSchema copied to clipboard.")
    /\ clientOpen' = FALSE
    /\ pc' = "returned"
    /\ promise' = "fulfilled"
    /\ UNCHANGED <<flatMap, count, seen, observed, keyed, failedDoc, failure, caught,
                   stderr, typeKey, exitCode>>
    /\ UNCHANGED treeVars

\* await clipboardy.write(schema) rejects
CopyFail ==
    /\ pc = "copying"
    /\ Catch("clipboard", <<>>)
    /\ UNCHANGED <<flatMap, count, seen, observed, keyed, failedDoc, clientOpen, failure,
                   stdout, clipboard, typeKey, exitCode>>
    /\ UNCHANGED treeVars

\* program.action does not await the promise and sets no exit status: the
\* process ends with status 0 once nothing keeps it alive
Exit ==
    /\ pc = "returned"
    /\ ~clientOpen
    /\ exitCode' = 0
    /\ pc' = "exited"
    /\ UNCHANGED <<flatMap, count, seen, observed, keyed, failedDoc, clientOpen, failure,
                   caught, stdout, stderr, clipboard, typeKey, promise>>
    /\ UNCHANGED treeVars

Next ==
    \/ ConnectOk
    \/ ConnectFail
    \/ \E doc \in Docs : NextDoc(doc)
    \/ ReadFail
    \/ \E tk \in TypeKeys, copyToClipboard \in BOOLEAN : EndOfStream(tk, copyToClipboard)
    \/ CopyOk
    \/ CopyFail
    \/ Exit

Spec == Init /\ [][Next]_vars

----------------------------------------------------------------------------
(* The flatten-based updateFlatMap: src/unnamed/part_001 with flatten of   *)
(* src/custom-flat.js                                                      *)

MixedFlat == "Schema.Types.Mixed"

\* the names of the array indices 0, 1, 2, ...
IndexNames == <<"0", "1", "2", "3", "4", "5", "6", "7", "8", "9">>

inferTypeFlat(value) ==
    IF value.t = "boolean" THEN Returned("Boolean")
    ELSE IF value.t = "number" THEN Returned("Number")
    ELSE IF value.t \in {"null", "undefined"} THEN Thrown("TypeError: Cannot read properties")
    ELSE IF value.t = "Decimal128" THEN Returned("Number")
    ELSE IF value.t = "Date" THEN Returned("Date")
    ELSE IF value.t = "dateString" THEN Returned("Date")
    ELSE IF value.t \in {"string", "digitString"} THEN Returned("String")
    ELSE IF value.t = "ObjectId" THEN Returned("Schema.Types.ObjectId")
    ELSE Thrown("Unsupported type of: " \o value.t)

mergeTypesFlat(existingType, newType) ==
    IF existingType = Undefined \/ existingType = "" THEN newType
    ELSE IF existingType = newType THEN existingType
    ELSE MixedFlat

\* the option shouldFlatten that updateFlatMap hands to flatten
shouldFlatten(value) == value.t \notin {"ObjectId", "Decimal128", "Binary", "Date"}

isBuffer(value) == value.t = "Buffer"

\* Object.keys(value) with the values: of an array, its indices
ObjectKeys(value) ==
    IF value.t = "Array" THEN [i \in 1..Len(value.c) |-> Field(IndexNames[i], value.c[i])]
    ELSE IF value.t = "Object" THEN value.c
    ELSE <<>>

RECURSIVE FlattenStep(_, _, _, _)
\* step(object, prev) of flatten from key i on; output is the sequence of
\* [k |-> path, v |-> value] in insertion order
FlattenStep(entries, i, prev, output) ==
    IF i > Len(entries) THEN output
    ELSE
      LET value == entries[i].v
          newKey == IF prev # <<>> THEN prev \o <<entries[i].k>> ELSE <<entries[i].k>>
          out ==
            IF ~shouldFlatten(value) THEN Put(output, newKey, value)
            ELSE IF ~isBuffer(value) /\ value.t \in {"Object", "Array"} /\ Len(ObjectKeys(value)) > 0
              THEN FlattenStep(ObjectKeys(value), 1, newKey, output)
            ELSE Put(output, newKey, value)
      IN FlattenStep(entries, i + 1, prev, out)

flatten(target) == FlattenStep(ObjectKeys(target), 1, <<>>, <<>>)

RECURSIVE ReplaceIndices(_, _, _)
\* key.replace(/\.\d+(\.|$)/g, '.0$1') from segment i on: a match takes the
\* '.' before an all-digit segment and the '.' after it, so that the next
\* segment has no '.' left to start a match with (dotTaken)
ReplaceIndices(segs, i, dotTaken) ==
    IF i > Len(segs) THEN segs
    ELSE IF i > 1 /\ ~dotTaken /\ segs[i] \in DigitSegs
         THEN ReplaceIndices([segs EXCEPT ![i] = "0"], i + 1, TRUE)
         ELSE ReplaceIndices(segs, i + 1, FALSE)

normalizeKey(key) == ReplaceIndices(key, 1, FALSE)

\* mutant: only a top-level field named type gets the suffix
typeKeySuffixTopOnly(normalizedKey, tk) ==
    IF tk # "type" THEN normalizedKey \o <<tk>>
    ELSE IF normalizedKey = <<"type">> THEN normalizedKey \o <<"type">>
    ELSE normalizedKey

\* the suffix that keeps a field named like the type key apart from it
typeKeySuffix(normalizedKey, tk) ==
    IF tk # "type" THEN normalizedKey \o <<tk>>
    ELSE IF normalizedKey = <<"type">> \/ normalizedKey[Len(normalizedKey)] = "type"
         THEN normalizedKey \o <<"type">>
    ELSE normalizedKey

RECURSIVE MergeFlattened(_, _, _, _)
\* the for-of loop of updateFlatMap over the flattened entries, from entry i on
MergeFlattened(flattened, i, acc, tk) ==
    IF i > Len(flattened) THEN acc
    ELSE
      LET normalized == normalizeKey(flattened[i].k)
          normalizedKey == typeKeySuffix(normalized, tk)
          r == inferTypeFlat(flattened[i].v)
          next ==
            IF r.ok
            THEN [acc EXCEPT !.fm = Put(acc.fm, normalizedKey,
                                        mergeTypesFlat(Get(acc.fm, normalizedKey), r.tag)),
                             !.obs = @ \cup {<<normalizedKey, r.tag>>},
                             !.keyed = @ \cup {<<normalized, normalizedKey, TRUE>>}]
            ELSE [acc EXCEPT !.err = Append(@, "Error updating flatMap:"),
                             !.keyed = @ \cup {<<normalized, normalizedKey, FALSE>>}]
      IN MergeFlattened(flattened, i + 1, next, tk)

updateFlatMapFlat(doc, fm, tk) ==
    MergeFlattened(flatten(doc), 1,
                   [fm |-> fm, err |-> <<>>, obs |-> {}, keyed |-> {}], tk)

\* the documents of SpecFlat: fields named like the default type key, at
\* the top, nested and inside arrays
FlatKeys == {"a", "type"}

FlatArrays ==
    UNION {[1..n -> {Scalar("number")}] : n \in 1..MaxLen}

FlatValues ==
    {Scalar("number"), Scalar("string"), Scalar("null"), Scalar("ObjectId")}
    \cup {Obj(<<Field(key, Scalar("number"))>>) : key \in FlatKeys}
    \cup {Obj(<<Field("type", Obj(<<Field("type", Scalar("string"))>>))>>)}
    \cup {Arr(items) : items \in FlatArrays}
    \cup {Arr(<<Obj(<<Field("type", Scalar("number"))>>)>>),
          Arr(<<Arr(<<Scalar("number"), Scalar("string")>>)>>),
          Arr(<<>>)}

FlatDocs == {Obj(<<Field(key, value)>>) : key \in FlatKeys, value \in FlatValues}

\* the typeKey parameter: its default, or a custom key
FlatTypeKeys == {"type", "$type"}

InitFlat ==
    /\ pc = "flat"
    /\ flatMap = EmptyFlatMap
    /\ count = 0
    /\ seen = {}
    /\ observed = {}
    /\ keyed = {}
    /\ failedDoc = NoDoc
    /\ clientOpen = FALSE
    /\ failure = "none"
    /\ caught = "none"
    /\ stdout = <<>>
    /\ stderr = <<>>
    /\ clipboard = ""
    /\ typeKey \in FlatTypeKeys
    /\ promise = "pending"
    /\ exitCode = -1
    /\ input = NoDoc
    /\ flatDoc = <<>>
    /\ tree = NoTree

\* flatMap = updateFlatMap(doc, flatMap, typeKey)
FlatUpdate(doc) ==
    /\ pc = "flat"
    /\ count < MaxDocs
    /\ LET r == updateFlatMapFlat(doc, flatMap, typeKey)
       IN /\ flatMap' = r.fm
          /\ observed' = observed \cup r.obs
          /\ keyed' = keyed \cup r.keyed
          /\ stderr' = stderr \o r.err
    /\ seen' = seen \cup {doc}
    /\ count' = count + 1
    /\ UNCHANGED <<pc, failedDoc, clientOpen, failure, caught, stdout, clipboard,
                   typeKey, promise, exitCode>>
    /\ UNCHANGED treeVars

NextFlat == \E doc \in FlatDocs : FlatUpdate(doc)

SpecFlat == InitFlat /\ [][NextFlat]_vars

----------------------------------------------------------------------------
(* src/custom-flat.js: flatten called without options, and unflatten       *)

RECURSIVE StepNoOpts(_, _, _, _)
\* step(object, prev) of flatten from key i on when opts.shouldFlatten is
\* not given
StepNoOpts(entries, i, prev, output) ==
    IF i > Len(entries) THEN output
    ELSE
      LET value == entries[i].v
          newKey == IF prev # <<>> THEN prev \o <<entries[i].k>> ELSE <<entries[i].k>>
          out ==
            IF ~isBuffer(value) /\ value.t \in {"Object", "Array"} /\ Len(ObjectKeys(value)) > 0
              THEN StepNoOpts(ObjectKeys(value), 1, newKey, output)
            ELSE Put(output, newKey, value)
      IN StepNoOpts(entries, i + 1, prev, out)

flattenNoOpts(target) == StepNoOpts(ObjectKeys(target), 1, <<>>, <<>>)

\* the number 1 as a value of a tree
SNum == [t |-> "number", s |-> "", c |-> <<>>, p |-> <<>>]

RECURSIVE ToNode(_)
\* a value of a document as a value of a tree: the same JavaScript value
ToNode(value) ==
    IF value.t = "Object"
      THEN SObj([i \in 1..Len(value.c) |-> [k |-> value.c[i].k, n |-> ToNode(value.c[i].v)]])
    ELSE IF value.t = "Array"
      THEN SArr([i \in 1..Len(value.c) |-> ToNode(value.c[i])])
    ELSE IF value.t = "number" THEN SNum
    ELSE SStr(value.t)

RECURSIVE UnflattenLoop(_, _, _, _)
\* the for loop of unflatten over the segments of one path, from segment
\* index on; value is flatMap[path]
UnflattenLoop(st, keys, index, value) ==
    IF st.thrown \/ index > Len(keys) THEN st
    ELSE
      LET key == keys[index]
          hasNext == index + 1 <= Len(keys)
          isLastKey == index = Len(keys)
      IN IF hasNext /\ keys[index + 1] = "0"
         THEN IF index + 1 = Len(keys)
              THEN Assign(st, key, SArr(<<value>>))
              ELSE IF ~CanRead(st) THEN [st EXCEPT !.thrown = TRUE]
                   ELSE LET st1 == IF Falsy(ReadProp(Deref(st), key))
                                   THEN Assign(st, key, SArr(<<SObj(<<>>)>>))
                                   ELSE st
                        IN IF st1.thrown THEN st1
                           ELSE UnflattenLoop(Enter(st1, <<key, "0">>), keys, index + 2, value)
         ELSE IF isLastKey THEN Assign(st, key, value)
         ELSE IF ~CanRead(st) THEN [st EXCEPT !.thrown = TRUE]
              ELSE LET st1 == IF Falsy(ReadProp(Deref(st), key))
                              THEN Assign(st, key, SObj(<<>>))
                              ELSE st
                   IN IF st1.thrown THEN st1
                      ELSE UnflattenLoop(Enter(st1, <<key>>), keys, index + 1, value)

RECURSIVE UnflattenEach(_, _, _)
\* Object.keys(flatMap).forEach from key i on; the values are tree values
UnflattenEach(fm, i, st) ==
    IF st.thrown \/ i > Len(fm) THEN st
    ELSE UnflattenEach(fm, i + 1,
                       UnflattenLoop([st EXCEPT !.cur = Ref(<<>>)], fm[i].k, 1, fm[i].v))

\* [root |-> the schema, thrown |-> a TypeError left the function]
unflatten(fm) ==
    UnflattenEach(fm, 1, [root |-> SObj(<<>>), cur |-> Ref(<<>>), thrown |-> FALSE])

----------------------------------------------------------------------------
(* SpecTrip: flatten, then unflatten, of src/custom-flat.js on one object  *)

\* nesting depth of the objects handed to flatten
TripDepth == 2

\* the field names, in the order Object.keys lists them: an index first
TripKeys == <<"0", "a", "b">>

TripLeaves == {Scalar("number"), Scalar("string")}

RECURSIVE TripValues(_)
\* leaves, objects of one field, and objects of two fields the second of
\* which holds a leaf, nested depth deep
TripValues(depth) ==
    IF depth = 0 THEN TripLeaves
    ELSE LET inner == TripValues(depth - 1)
         IN inner
            \cup {Obj(<<Field(TripKeys[i], v)>>) : i \in 1..Len(TripKeys), v \in inner}
            \cup {Obj(<<Field(TripKeys[ij[1]], v), Field(TripKeys[ij[2]], w)>>) :
                    ij \in {x \in (1..Len(TripKeys)) \X (1..Len(TripKeys)) : x[1] < x[2]},
                    v \in inner, w \in TripLeaves}

TripDocs == {v \in TripValues(TripDepth) : v.t = "Object"}

\* the variables SpecTrip and SpecBuild leave alone
runVars == <<count, seen, observed, keyed, failedDoc, clientOpen, failure,
             caught, stdout, stderr, clipboard, typeKey, promise, exitCode>>

InitTrip ==
    /\ pc = "trip"
    /\ input \in TripDocs
    /\ flatDoc = <<>>
    /\ tree = NoTree
    /\ flatMap = EmptyFlatMap
    /\ count = 0
    /\ seen = {}
    /\ observed = {}
    /\ keyed = {}
    /\ failedDoc = NoDoc
    /\ clientOpen = FALSE
    /\ failure = "none"
    /\ caught = "none"
    /\ stdout = <<>>
    /\ stderr = <<>>
    /\ clipboard = ""
    /\ typeKey = ""
    /\ promise = "pending"
    /\ exitCode = -1

\* flatten(input)
Flatten ==
    /\ pc = "trip"
    /\ flatDoc' = flattenNoOpts(input)
    /\ pc' = "flattened"
    /\ UNCHANGED <<input, tree, flatMap>>
    /\ UNCHANGED runVars

\* unflatten of what flatten returned
Unflatten ==
    /\ pc = "flattened"
    /\ LET r == unflatten([i \in 1..Len(flatDoc) |->
                             [k |-> flatDoc[i].k, v |-> ToNode(flatDoc[i].v)]])
       IN tree' = [root |-> r.root, thrown |-> r.thrown]
    /\ pc' = "unflattened"
    /\ UNCHANGED <<input, flatDoc, flatMap>>
    /\ UNCHANGED runVars

NextTrip ==
    \/ Flatten
    \/ Unflatten

SpecTrip == InitTrip /\ [][NextTrip]_vars

----------------------------------------------------------------------------
(* SpecBuild: the schema builders on accumulators of any paths:            *)
(* flatMapToSchema of src/index.js and unflatten of src/custom-flat.js     *)

\* segments of a path
MaxSegs == 3
\* entries of an accumulator
MaxPaths == 2

\* the array segment of flatMapToSchema and the one of unflatten
Markers == {"$", "0"}

RECURSIVE PathsOfLen(_, _)
\* paths of n segments under the field a: field names b and c, and one
\* array segment
PathsOfLen(n, marker) ==
    IF n = 1 THEN {<<"a">>}
    ELSE {Append(path, seg) : path \in PathsOfLen(n - 1, marker), seg \in {"b", "c", marker}}

BuildPaths(marker) == UNION {PathsOfLen(n, marker) : n \in 1..MaxSegs}

\* the tag of the i-th entry
BuildTags == <<"Number", "String", "Date", "Boolean">>

RECURSIVE MapsOfLen(_, _)
\* accumulators of n different paths, in every insertion order
MapsOfLen(n, paths) ==
    IF n = 0 THEN {EmptyFlatMap}
    ELSE {fm \in {Append(shorter, [k |-> path, v |-> BuildTags[n]]) :
                     shorter \in MapsOfLen(n - 1, paths), path \in paths} :
             Cardinality(Keys(fm)) = n}

InitBuild ==
    /\ pc = "build"
    /\ \E n \in 1..MaxPaths, marker \in Markers : flatMap \in MapsOfLen(n, BuildPaths(marker))
    /\ input = NoDoc
    /\ flatDoc = <<>>
    /\ tree = NoTree
    /\ count = 0
    /\ seen = {}
    /\ observed = {}
    /\ keyed = {}
    /\ failedDoc = NoDoc
    /\ clientOpen = FALSE
    /\ failure = "none"
    /\ caught = "none"
    /\ stdout = <<>>
    /\ stderr = <<>>
    /\ clipboard = ""
    /\ typeKey = ""
    /\ promise = "pending"
    /\ exitCode = -1

\* flatMapToSchema(flatMap)
BuildSchema ==
    /\ pc = "build"
    /\ LET r == flatMapToSchema(flatMap)
       IN tree' = [root |-> r.root, thrown |-> r.thrown]
    /\ pc' = "schema"
    /\ UNCHANGED <<input, flatDoc, flatMap>>
    /\ UNCHANGED runVars

\* unflatten(flatMap)
UnflattenMap ==
    /\ pc = "build"
    /\ LET r == unflatten([i \in 1..Len(flatMap) |->
                             [k |-> flatMap[i].k, v |-> SStr(flatMap[i].v)]])
       IN tree' = [root |-> r.root, thrown |-> r.thrown]
    /\ pc' = "unflattened"
    /\ UNCHANGED <<input, flatDoc, flatMap>>
    /\ UNCHANGED runVars

NextBuild ==
    \/ BuildSchema
    \/ UnflattenMap

SpecBuild == InitBuild /\ [][NextBuild]_vars

----------------------------------------------------------------------------
(* Properties *)

PlainTags == {"Boolean", "Number", "Date", "String"}

\* the tags observed at a path so far
TagsAt(path) == {o[2] : o \in {x \in observed : x[1] = path}}

ObservedPaths == {o[1] : o \in observed}

\* C1: once the entry of a path is Mixed, every later step leaves it Mixed
C1_Absorption ==
    [][\A path \in Keys(flatMap) :
          Get(flatMap, path) = Mixed => Get(flatMap', path) = Mixed]_vars

\* C1 witness: three different tags were observed at a path, so that one
\* of them arrived when the entry was Mixed already
C1_Witness ==
    \E path \in Keys(flatMap) :
        /\ Cardinality(TagsAt(path)) >= 3
        /\ Get(flatMap, path) = Mixed

\* C2: merging an observation made before once more, and processing a
\* document processed before once more, leave the accumulator as it is
C2_Idempotent ==
    pc = "streaming" =>
        /\ \A o \in observed :
              MergeInto(Acc(flatMap), o[1], o[2]).fm = flatMap
        /\ \A doc \in seen :
              LET again == updateFlatMap(doc, flatMap)
              IN ~again.thrown /\ again.fm = flatMap

\* C2 witness: a document with a plain entry and a document with a
\* conflict have been processed
C2_Witness ==
    /\ pc = "streaming"
    /\ Cardinality(seen) >= 2
    /\ \E path \in Keys(flatMap) : Get(flatMap, path) \in PlainTags
    /\ \E path \in Keys(flatMap) : Get(flatMap, path) = Mixed

\* a Union entry of two member tags, in first-seen order
UnionOf(first, second) == "Union[" \o first \o ", " \o second \o "]"

\* C3 as stated: two distinct tags observed at a path leave a Union of
\* exactly the two
C3_Original ==
    \A path \in ObservedPaths :
        Cardinality(TagsAt(path)) = 2 =>
            \E a \in TagsAt(path), b \in TagsAt(path) :
                a # b /\ Get(flatMap, path) = UnionOf(a, b)

\* C3 amended: two distinct tags observed at a path, in either arrival
\* order, leave the entry Mixed
C3_ConflictIsMixed ==
    \A path \in ObservedPaths :
        Cardinality(TagsAt(path)) = 2 => Get(flatMap, path) = Mixed

\* C3 witness: Number and String were observed at one path
C3_Witness ==
    \E path \in ObservedPaths :
        TagsAt(path) = {"Number", "String"} /\ Get(flatMap, path) = Mixed

RECURSIVE FoldDocs(_, _)
\* updateFlatMap folded over a set of documents in one fixed order
FoldDocs(docs, fm) ==
    IF docs = {} THEN fm
    ELSE LET doc == CHOOSE d \in docs : TRUE
         IN FoldDocs(docs \ {doc}, updateFlatMap(doc, fm).fm)

\* C4: in whatever order the documents arrived, the accumulator is the
\* mapping that folding them in one fixed order gives
C4_OrderIndependent ==
    pc = "streaming" => AsMap(flatMap) = AsMap(FoldDocs(seen, EmptyFlatMap))

\* C4 witness: as many different documents as the bound allows, with a
\* conflict between them and more than one path
C4_Witness ==
    /\ pc = "streaming"
    /\ Cardinality(seen) = MaxDocs
    /\ Len(flatMap) >= 2
    /\ \E path \in Keys(flatMap) : Get(flatMap, path) = Mixed

\* C5 as stated: no error of the classifier leaves updateFlatMap, and the
\* classifiable top-level fields of every document handled are recorded
C5_Original ==
    /\ caught # "updateFlatMap"
    /\ \A i \in 1..Len(failedDoc.c) :
          inferType(failedDoc.c[i].v).ok => Has(flatMap, <<failedDoc.c[i].k>>)

\* C6 as stated: a top-level field holding null or a regular expression
\* leaves the entry of its path Mixed
C6_Original ==
    \A doc \in seen : \A i \in 1..Len(doc.c) :
        doc.c[i].v.t \in {"null", "RegExp"} => Get(flatMap, <<doc.c[i].k>>) = Mixed

\* the run printed a schema: the second line of the output
Printed == Len(stdout) >= 2 /\ stdout[2] # "No records found."

\* a leaf as C7 describes it
WrappedLeaf(tag, tk) == IF tk # "" THEN "{ " \o tk \o ": " \o tag \o " }" ELSE tag

\* C7 as stated: the schema of a single field a is printed with its tag,
\* Mixed too, wrapped in the type key (bare without one)
C7_Original ==
    (Printed /\ Keys(flatMap) = {<<"a">>}) =>
        stdout[2] = "\n\nimport mongoose from 'mongoose';\n\n"
                    \o "const schema = new mongoose.Schema({\n  a: "
                    \o WrappedLeaf(Get(flatMap, <<"a">>), typeKey) \o "\n}"
                    \o (IF typeKey # "" THEN ", { typeKey: '" \o typeKey \o "' }" ELSE "")
                    \o ");\n\n"
                    \o "export default mongoose.model('" \o CollectionName \o "', schema);"

Last(seq) == seq[Len(seq)]

\* C8: the key a normalized path is stored under is the path with .type
\* added when it ends in type (default type key) or with the custom type
\* key added; different paths get different keys; no key ends in a bare type
C8_TypeKeyCollision ==
    /\ \A e \in keyed :
          /\ e[2] = IF typeKey # "type" THEN e[1] \o <<typeKey>>
                    ELSE IF Last(e[1]) = "type" THEN e[1] \o <<"type">>
                    ELSE e[1]
          /\ e[3] => Has(flatMap, e[2])
    /\ \A e1 \in keyed, e2 \in keyed : e1[1] # e2[1] => e1[2] # e2[2]
    /\ \A key \in Keys(flatMap) :
          Last(key) = "type" =>
              typeKey = "type" /\ Len(key) >= 2 /\ key[Len(key) - 1] = "type"

\* C8 witness: with the default type key, a nested field named type and a
\* sibling of another name have been stored
C8_Witness ==
    /\ typeKey = "type"
    /\ <<<<"a", "type">>, <<"a", "type", "type">>, TRUE>> \in keyed
    /\ <<<<"a", "a">>, <<"a", "a">>, TRUE>> \in keyed
    /\ Has(flatMap, <<"a", "type", "type">>)

\* C9: a source without documents gives the notice and no schema text
C9_EmptySource ==
    (pc \in {"returned", "exited"} /\ count = 0 /\ failure = "none") =>
        stdout = <<"Starting schema generation...", "No records found.">>

\* C9 witness: the stream ended before it yielded a document
C9_Witness ==
    /\ pc = "returned"
    /\ count = 0
    /\ failure = "none"
    /\ stdout[Len(stdout)] = "No records found."

\* C10 as stated: a failure of the source rejects the promise of
\* generateSchemaFromMongo and the process ends with a status other than 0
C10_Original ==
    (failure # "none" /\ pc \in {"returned", "exited"}) =>
        /\ promise = "rejected"
        /\ pc = "exited" => exitCode # 0

RECURSIVE SameShape(_, _)
\* a tree value has the nesting shape of a document value: an object is an
\* object with the same keys and, under each key, the same shape; a leaf is
\* the same leaf
SameShape(value, node) ==
    IF value.t = "Object"
    THEN /\ node.t = "object"
         /\ {node.p[i].k : i \in 1..Len(node.p)} = {value.c[i].k : i \in 1..Len(value.c)}
         /\ \A i \in 1..Len(value.c) : SameShape(value.c[i].v, PropOf(node, value.c[i].k))
    ELSE node = ToNode(value)

\* C11 as stated: unflatten(flatten(doc)) has the nesting shape of doc, for
\* every object of plain objects and scalar leaves, a field named 0 included
C11_Original ==
    pc = "unflattened" => ~tree.thrown /\ SameShape(input, tree.root)

\* C12 as stated: every array index of a flattened path, an index that
\* follows another index included, is stored as the one canonical segment
\* 0, so that all elements of an array share one accumulator path
C12_Original ==
    \A e \in keyed : \A i \in 1..Len(e[1]) : e[1][i] \in DigitSegs => e[1][i] = "0"

\* C13 as stated: of a top-level field holding an array of scalars, the tag
\* of every element is merged into the element path, so that two different
\* tags in one array leave the element path Mixed
C13_Original ==
    \A doc \in seen : \A i \in 1..Len(doc.c) :
        LET value == doc.c[i].v
            elemPath == <<doc.c[i].k, "$">>
        IN (IsArray(value) /\ \A j \in 1..Len(value.c) : inferType(value.c[j]).ok) =>
              /\ \A j \in 1..Len(value.c) : <<elemPath, inferType(value.c[j]).tag>> \in observed
              /\ (\E j \in 1..Len(value.c) : inferType(value.c[j]).tag # inferType(value.c[1]).tag)
                    => Get(flatMap, elemPath) = Mixed

\* C14 as stated: a top-level field holding an empty array leaves Mixed at
\* the path of the field and no element path under it
C14_Original ==
    \A doc \in seen : \A i \in 1..Len(doc.c) :
        doc.c[i].v = Arr(<<>>) =>
            /\ Get(flatMap, <<doc.c[i].k>>) = Mixed
            /\ (\A d \in seen : d = doc) => ~Has(flatMap, <<doc.c[i].k, "$">>)

\* the array segment of the builder that made the tree
MarkerOf(at) == IF at = "schema" THEN "$" ELSE "0"

IsPrefix(p, q) == Len(p) < Len(q) /\ \A i \in 1..Len(p) : p[i] = q[i]

RECURSIVE NodeAt(_, _, _)
\* the value of a tree at a path: under a field name the property of that
\* name, under an array segment the sole element of a list
NodeAt(node, path, marker) ==
    IF path = <<>> THEN node
    ELSE IF Head(path) = marker
      THEN IF node.t = "array" /\ Len(node.c) = 1 /\ node.p = <<>>
           THEN NodeAt(node.c[1], Tail(path), marker)
           ELSE SUndefined
    ELSE IF node.t = "object" /\ HasProp(node, Head(path))
      THEN NodeAt(PropOf(node, Head(path)), Tail(path), marker)
    ELSE SUndefined

\* C15 as stated: an accumulator holding a path p and a longer path p.q, in
\* either insertion order, is built into a tree without an error, and the
\* tree holds an object or a list at p
C15_Original ==
    pc \in {"schema", "unflattened"} =>
        \A i \in 1..Len(flatMap), j \in 1..Len(flatMap) :
            IsPrefix(flatMap[i].k, flatMap[j].k) =>
                /\ ~tree.thrown
                /\ IsRef(NodeAt(tree.root, flatMap[i].k, MarkerOf(pc)))

\* accumulators C17 speaks of: no path is the start of another, and no node
\* is asked to be an object by one path and a list by another
Consistent(fm, marker) ==
    \A i \in 1..Len(fm), j \in 1..Len(fm) :
        /\ ~IsPrefix(fm[i].k, fm[j].k)
        /\ \A n \in 1..Len(fm[i].k) :
              (n <= Len(fm[j].k) /\ \A m \in 1..(n - 1) : fm[i].k[m] = fm[j].k[m])
                  => ((fm[i].k[n] = marker) <=> (fm[j].k[n] = marker))

\* C17 as stated: in the tree every array segment of every path, one that
\* follows another array segment included, is a list of one element that
\* holds the rest of the path, down to the tag
C17_Original ==
    (pc \in {"schema", "unflattened"} /\ Consistent(flatMap, MarkerOf(pc))) =>
        /\ ~tree.thrown
        /\ \A i \in 1..Len(flatMap) :
              NodeAt(tree.root, flatMap[i].k, MarkerOf(pc)) = SStr(flatMap[i].v)

\* the kinds of value C16 calls opaque: binary blob, date, identifier
OpaqueKinds == {"Binary", "Date", "ObjectId"}

\* a document without its i-th field
WithoutField(doc, i) ==
    Obj([j \in 1..(Len(doc.c) - 1) |-> IF j < i THEN doc.c[j] ELSE doc.c[j + 1]])

\* C16 as stated: a field holding an opaque value gives the accumulator no
\* path but its own: every other path comes from another field or from
\* another document
C16_Original ==
    pc = "streaming" =>
        \A doc \in seen : \A i \in 1..Len(doc.c) :
            doc.c[i].v.t \in OpaqueKinds =>
                Keys(flatMap) \subseteq
                    ({<<doc.c[i].k>>}
                     \cup Keys(updateFlatMap(WithoutField(doc, i), EmptyFlatMap).fm)
                     \cup Keys(FoldDocs(seen \ {doc}, EmptyFlatMap)))

\* C18 as stated: when generateSchemaFromMongo has finished after a
\* successful connect, on whatever path, the client has been closed
C18_Original ==
    (pc \in {"returned", "exited"} /\ failure # "connect") => ~clientOpen

====
